---- MODULE Spec2Model ----
(***************************************************************************)
(* Model of plugins/inputs/bind/xml_stats_v2.go: one collection cycle of   *)
(* readStatsXMLv2 (GET, status check, XML decode, emission to the          *)
(* accumulator) and of addXMLv2Counter.  Tag maps are Go maps, i.e.        *)
(* references: they live in `heap` and are named by their address.         *)
(***************************************************************************)
EXTENDS Integers, Sequences, FiniteSets, TLC

VARIABLES
    b,        \* the plugin's configuration (GatherMemoryContexts, GatherViews)
    addr,     \* the target URL of the cycle
    daemon,   \* what the name server answers to the GET
    pc,       \* position of readStatsXMLv2
    resp,     \* the HTTP response obtained by client.Get
    stats,    \* the decoded v2Root
    heap,     \* the tag maps allocated so far, by address
    tags,     \* address of readStatsXMLv2's `tags` map (0: not yet made)
    vtags,    \* address of the view loop's `tags` map (0: not yet made)
    frame,    \* arguments of the running addXMLv2Counter call
    i,        \* index of the running range loop
    g,        \* index of the next server counter group
    v,        \* index of the current view
    acc,      \* the calls received by the accumulator, in order
    ret       \* the value readStatsXMLv2 returned

vars == <<b, addr, daemon, pc, resp, stats, heap, tags, vtags, frame, i, g, v, acc, ret>>

----------------------------------------------------------------------------
(* Bounds of the model.                                                    *)

\* number of items (counters, memory contexts, views) in a served document
MaxItems == 2

----------------------------------------------------------------------------
(* Generic helpers.                                                        *)

Range(s) == {s[k] : k \in DOMAIN s}

RECURSIVE Flatten(_)
Flatten(ss) == IF ss = <<>> THEN <<>> ELSE Head(ss) \o Flatten(Tail(ss))

Map(s, F(_)) == [k \in DOMAIN s |-> F(s[k])]

\* m with m[k] = val, as the Go statement m[k] = val leaves the map
MapSet(m, k, val) == (k :> val) @@ m

----------------------------------------------------------------------------
(* Character data and integer fields.                                      *)

Digits == <<"0", "1", "2", "3", "4", "5", "6", "7", "8", "9">>

IsDigit(ch) == \E d \in DOMAIN Digits : Digits[d] = ch

DigitVal(ch) == (CHOOSE d \in DOMAIN Digits : Digits[d] = ch) - 1

RECURSIVE TrimLeft(_)
TrimLeft(s) == IF s # <<>> /\ Head(s) = " " THEN TrimLeft(Tail(s)) ELSE s

RECURSIVE TrimRight(_)
TrimRight(s) ==
    IF s # <<>> /\ s[Len(s)] = " " THEN TrimRight(SubSeq(s, 1, Len(s) - 1)) ELSE s

TrimSpace(s) == TrimRight(TrimLeft(s))

RECURSIVE DigitsValue(_, _)
DigitsValue(s, n) ==
    IF s = <<>> THEN n ELSE DigitsValue(Tail(s), 10 * n + DigitVal(Head(s)))

\* strconv.ParseInt(s, 10, 64) on the character data of the model, whose
\* numerals are far shorter than the 19 digits at which the range check bites
ParseInt(s) ==
    LET neg  == s # <<>> /\ Head(s) = "-"
        body == IF s # <<>> /\ Head(s) \in {"-", "+"} THEN Tail(s) ELSE s
    IN  IF body = <<>> \/ \E k \in DOMAIN body : ~IsDigit(body[k])
        THEN [ok |-> FALSE, val |-> 0]
        ELSE [ok |-> TRUE,
              val |-> IF neg THEN 0 - DigitsValue(body, 0) ELSE DigitsValue(body, 0)]

\* a decoder that swallows the conversion error and leaves the zero value
copyValueIntLenient(src) ==
    IF src = <<>> THEN [ok |-> TRUE, val |-> 0]
    ELSE [ok |-> TRUE, val |-> ParseInt(TrimSpace(src)).val]

\* encoding/xml filling an `int` field from an element's character data:
\* empty data leaves zero, anything else goes through strconv.ParseInt and a
\* conversion error is the decode's error
copyValueInt(src) ==
    IF src = <<>> THEN [ok |-> TRUE, val |-> 0] ELSE ParseInt(TrimSpace(src))

----------------------------------------------------------------------------
(* The statistics document as served: element text is character data.      *)

ServerFields == <<"OpCodes", "RdTypes", "NSStats", "ZoneStats", "ResStats", "SockStats">>

ViewFields == {"RdTypes", "ResStats", "Caches"}

First == [name |-> "QUERY", counter |-> <<"4", "2">>]

Second == [name |-> "UPDATE", counter |-> <<" ", "7">>]

GoodCounters == {First, Second}

BadCounters == { [name |-> "QUERY", counter |-> <<"x">>] }

RawCounters == GoodCounters \cup BadCounters

RawSummary ==
    [TotalUse    |-> <<"8", "1">>,
     InUse       |-> <<"4", "2">>,
     BlockSize   |-> <<"7">>,
     ContextSize |-> <<"4">>,
     Lost        |-> <<>>]

EmptyDocument ==
    [wellFormed |-> TRUE,
     version    |-> "2.2",
     server     |-> [f \in Range(ServerFields) |-> <<>>],
     memory     |-> [contexts |-> <<>>, summary |-> RawSummary],
     views      |-> <<>>]

ViewName(n) == IF n = 1 THEN "_default" ELSE "_bind"

EmptyView(n) ==
    [name |-> ViewName(n), RdTypes |-> <<>>, ResStats |-> <<>>, Caches |-> <<>>]

\* the list cs with c added; the counters being interchangeable, a list
\* opens with First or a malformed counter, never with Second
Added(cs, c) == IF cs = <<>> /\ c = Second THEN cs ELSE Append(cs, c)

\* view w with counter c added to the group f
ViewWith(w, f, c) ==
    IF f = "Caches"
    THEN IF w.Caches = <<>>
         THEN IF c = Second THEN w
              ELSE [w EXCEPT !.Caches = <<[name |-> "_default", RRSets |-> <<c>>]>>]
         ELSE [w EXCEPT !.Caches[1].RRSets = Append(@, c)]
    ELSE IF f \in ViewFields THEN [w EXCEPT ![f] = Added(@, c)]
    ELSE w

RawContext(c) ==
    [id |-> "0x1f", name |-> c.name, total |-> c.counter, inuse |-> <<"1">>]

\* the items a document is built from
Items ==
    [op : {"server"}, field : Range(ServerFields), c : RawCounters]
    \cup [op : {"context"}, field : {""}, c : RawCounters]
    \cup [op : {"view"}, field : ViewFields \cup {""}, c : RawCounters]
    \cup [op : {"viewc"}, field : ViewFields, c : RawCounters]

AddItem(doc, it) ==
    CASE it.op = "server" ->
            [doc EXCEPT !.server[it.field] = Added(@, it.c)]
      [] it.op = "context" ->
            IF doc.memory.contexts = <<>> /\ it.c = Second THEN doc
            ELSE [doc EXCEPT !.memory.contexts = Append(@, RawContext(it.c))]
      [] it.op = "view" ->
            [doc EXCEPT !.views =
                Append(@, ViewWith(EmptyView(Len(@) + 1), it.field, it.c))]
      [] it.op = "viewc" ->
            IF doc.views = <<>> THEN doc
            ELSE [doc EXCEPT !.views[Len(doc.views)] = ViewWith(@, it.field, it.c)]

RECURSIVE Build(_, _)
Build(doc, its) ==
    IF its = <<>> THEN doc ELSE Build(AddItem(doc, Head(its)), Tail(its))

Documents(n) == { Build(EmptyDocument, its) : its \in UNION {[1..k -> Items] : k \in 0..n} }

----------------------------------------------------------------------------
(* xml.NewDecoder(resp.Body).Decode(&stats) into v2Root.                   *)

DecodeCounter(c) == [Name |-> c.name, Value |-> copyValueInt(c.counter).val]

DecodeCounters(cs) == [k \in DOMAIN cs |-> DecodeCounter(cs[k])]

\* every piece of character data the decoder converts to an int
IntTexts(doc) ==
    UNION { {c.counter : c \in Range(doc.server[f])} : f \in Range(ServerFields) }
    \cup { doc.memory.summary[f] : f \in DOMAIN doc.memory.summary }
    \cup UNION { {c.total, c.inuse} : c \in Range(doc.memory.contexts) }
    \cup UNION { {c.counter : c \in Range(w.RdTypes) \cup Range(w.ResStats)}
                 : w \in Range(doc.views) }
    \cup UNION { UNION { {c.counter : c \in Range(ca.RRSets)} : ca \in Range(w.Caches) }
                 : w \in Range(doc.views) }

DecodeError(doc) ==
    IF ~doc.wellFormed THEN "syntax"
    ELSE IF \E t \in IntTexts(doc) : ~copyValueInt(t).ok THEN "strconv"
    ELSE ""

ZeroRoot ==
    [Version    |-> "",
     Statistics |->
        [Version |-> "",
         Views   |-> <<>>,
         Server  |-> [f \in Range(ServerFields) |-> <<>>],
         Memory  |-> [Contexts |-> <<>>,
                      Summary  |-> [TotalUse |-> 0, InUse |-> 0, BlockSize |-> 0,
                                    ContextSize |-> 0, Lost |-> 0]]]]

DecodeView(w) ==
    [Name     |-> w.name,
     RdTypes  |-> DecodeCounters(w.RdTypes),
     ResStats |-> DecodeCounters(w.ResStats),
     Caches   |-> [k \in DOMAIN w.Caches |->
                     [Name |-> w.Caches[k].name,
                      RRSets |-> DecodeCounters(w.Caches[k].RRSets)]]]

DecodeContext(c) ==
    [Id |-> c.id, Name |-> c.name,
     Total |-> copyValueInt(c.total).val, InUse |-> copyValueInt(c.inuse).val]

DecodeRoot(doc) ==
    [Version    |-> "1.0",
     Statistics |->
        [Version |-> doc.version,
         Views   |-> [k \in DOMAIN doc.views |-> DecodeView(doc.views[k])],
         Server  |-> [f \in Range(ServerFields) |-> DecodeCounters(doc.server[f])],
         Memory  |-> [Contexts |-> [k \in DOMAIN doc.memory.contexts |->
                                      DecodeContext(doc.memory.contexts[k])],
                      Summary  |-> [f \in DOMAIN doc.memory.summary |->
                                      copyValueInt(doc.memory.summary[f]).val]]]]

----------------------------------------------------------------------------
(* The environment of one cycle.                                           *)

StatusOK == 200

Statuses == {StatusOK, 204, 404, 500}

Targets == { [Host |-> "example:8053"] }

Configs == [GatherMemoryContexts : BOOLEAN, GatherViews : BOOLEAN]

Answer(transport, status, body) ==
    [transport |-> transport, status |-> status, body |-> body]

\* a cycle with nothing going wrong, over every document of MaxItems items;
\* and one fault at a time (transport failure, status, malformed XML, foreign
\* version marker) over the smaller documents
Daemons ==
    { Answer(FALSE, StatusOK, d) : d \in Documents(MaxItems) }
    \cup { Answer(TRUE, 0, d) : d \in Documents(MaxItems - 1) }
    \cup { Answer(FALSE, s, d) : s \in Statuses \ {StatusOK}, d \in Documents(MaxItems - 1) }
    \cup { Answer(FALSE, StatusOK, [d EXCEPT !.wellFormed = FALSE]) :
             d \in Documents(MaxItems - 1) }
    \cup { Answer(FALSE, StatusOK, [d EXCEPT !.version = "v9"]) :
             d \in Documents(MaxItems - 1) }

NoResponse == [StatusCode |-> 0, Body |-> EmptyDocument]

NoFrame == [commonTags |-> 0, stats |-> <<>>, ret |-> ""]

\* the values readStatsXMLv2 returns; "pending" while it runs
Result(kind, target, status, cause) ==
    [kind |-> kind, target |-> target, status |-> status, cause |-> cause]

Pending == Result("pending", "", 0, "")

Nil == Result("nil", "", 0, "")

Init ==
    /\ b \in Configs
    /\ addr \in Targets
    /\ daemon \in Daemons
    /\ pc = "get"
    /\ resp = NoResponse
    /\ stats = ZeroRoot
    /\ heap = <<>>
    /\ tags = 0
    /\ vtags = 0
    /\ frame = NoFrame
    /\ i = 1
    /\ g = 1
    /\ v = 1
    /\ acc = <<>>
    /\ ret = Pending

----------------------------------------------------------------------------
(* The accumulator: each call is recorded with the tag map as it stood at  *)
(* the call (`tags`) and the address of the map that was handed over       *)
(* (`ref`).                                                                *)

Observation(kind, measurement, fields, h, ref) ==
    [kind |-> kind, measurement |-> measurement, fields |-> fields,
     tags |-> h[ref], ref |-> ref]

----------------------------------------------------------------------------
(* readStatsXMLv2, statement by statement.                                 *)

\* resp, err := client.Get(addr.String()); if err != nil { return err }
Get ==
    /\ pc = "get"
    /\ IF daemon.transport
       THEN /\ ret' = Result("Transport", addr.Host, 0, "get")
            /\ pc' = "done"
            /\ UNCHANGED resp
       ELSE /\ resp' = [StatusCode |-> daemon.status, Body |-> daemon.body]
            /\ pc' = "status"
            /\ UNCHANGED ret
    /\ UNCHANGED <<b, addr, daemon, stats, heap, tags, vtags, frame, i, g, v, acc>>

\* a check that lets every status below 500 through
StatusAcceptedBelow500(code) == code < 500

\* resp.StatusCode != http.StatusOK, negated
StatusAccepted(code) == code = StatusOK

\* if resp.StatusCode != http.StatusOK { return fmt.Errorf(...addr, resp.Status) }
CheckStatus ==
    /\ pc = "status"
    /\ IF StatusAccepted(resp.StatusCode)
       THEN /\ pc' = "decode"
            /\ UNCHANGED ret
       ELSE /\ ret' = Result("BadStatus", addr.Host, resp.StatusCode, "")
            /\ pc' = "done"
    /\ UNCHANGED <<b, addr, daemon, resp, stats, heap, tags, vtags, frame, i, g, v, acc>>

SummaryFields(root) ==
    [TotalUse    |-> root.Statistics.Memory.Summary.TotalUse,
     InUse       |-> root.Statistics.Memory.Summary.InUse,
     BlockSize   |-> root.Statistics.Memory.Summary.BlockSize,
     ContextSize |-> root.Statistics.Memory.Summary.ContextSize,
     Lost        |-> root.Statistics.Memory.Summary.Lost]

\* a decode step that hands the memory summary over before looking at err
DecodeEmitsBeforeCheck ==
    /\ pc = "decode"
    /\ heap' = Append(heap, "url" :> addr.Host)
    /\ acc' = Append(acc, Observation("Gauge", "bind_memory", SummaryFields(ZeroRoot),
                                      heap', Len(heap')))
    /\ IF DecodeError(resp.Body) # ""
       THEN /\ ret' = Result("Decode", addr.Host, 0, DecodeError(resp.Body))
            /\ pc' = "done"
            /\ UNCHANGED stats
       ELSE /\ stats' = DecodeRoot(resp.Body)
            /\ pc' = "tags"
            /\ UNCHANGED ret
    /\ UNCHANGED <<b, addr, daemon, resp, tags, vtags, frame, i, g, v>>

\* if err := xml.NewDecoder(resp.Body).Decode(&stats); err != nil { return ... }
Decode ==
    /\ pc = "decode"
    /\ IF DecodeError(resp.Body) # ""
       THEN /\ ret' = Result("Decode", addr.Host, 0, DecodeError(resp.Body))
            /\ pc' = "done"
            /\ UNCHANGED stats
       ELSE /\ stats' = DecodeRoot(resp.Body)
            /\ pc' = "tags"
            /\ UNCHANGED ret
    /\ UNCHANGED <<b, addr, daemon, resp, heap, tags, vtags, frame, i, g, v, acc>>

\* tags := map[string]string{"url": addr.Host}
MakeTags ==
    /\ pc = "tags"
    /\ heap' = Append(heap, "url" :> addr.Host)
    /\ tags' = Len(heap')
    /\ g' = 1
    /\ pc' = "server"
    /\ UNCHANGED <<b, addr, daemon, resp, stats, vtags, frame, i, v, acc, ret>>

\* the groups with the socket statistics ahead of the zone statistics
serverGroupsReordered ==
    << [type |-> "opcode",   field |-> "OpCodes"],
       [type |-> "qtype",    field |-> "RdTypes"],
       [type |-> "nsstat",   field |-> "NSStats"],
       [type |-> "sockstat", field |-> "SockStats"],
       [type |-> "zonestat", field |-> "ZoneStats"] >>

\* the server counter groups readStatsXMLv2 emits, with their type label
serverGroups ==
    << [type |-> "opcode",   field |-> "OpCodes"],
       [type |-> "qtype",    field |-> "RdTypes"],
       [type |-> "nsstat",   field |-> "NSStats"],
       [type |-> "zonestat", field |-> "ZoneStats"],
       [type |-> "sockstat", field |-> "SockStats"] >>

\* tags["type"] = <label>; addXMLv2Counter(acc, tags, stats.Statistics.Server.<Group>)
ServerGroup ==
    /\ pc = "server"
    /\ heap' = [heap EXCEPT ![tags] = MapSet(@, "type", serverGroups[g].type)]
    /\ frame' = [commonTags |-> tags,
                 stats |-> stats.Statistics.Server[serverGroups[g].field],
                 ret |-> IF g = Len(serverGroups) THEN "memory" ELSE "server"]
    /\ i' = 1
    /\ g' = g + 1
    /\ pc' = "add"
    /\ UNCHANGED <<b, addr, daemon, resp, stats, tags, vtags, v, acc, ret>>

----------------------------------------------------------------------------
(* addXMLv2Counter, one iteration of its range loop per step.              *)

\* the common map itself used as the observation's tag map
localCopyAliased(h, commonTags) == [heap |-> h, ref |-> commonTags]

\* tags := make(map[string]string); for k, v := range commonTags { tags[k] = v }
localCopy(h, commonTags) ==
    [heap |-> Append(h, [k \in DOMAIN h[commonTags] |-> h[commonTags][k]]),
     ref  |-> Len(h) + 1]

\* tags["name"] = c.Name; fields := {"value": c.Value}; acc.AddCounter(...)
AddXMLv2Counter ==
    /\ pc = "add"
    /\ i <= Len(frame.stats)
    /\ LET c  == frame.stats[i]
           cp == localCopy(heap, frame.commonTags)
       IN  /\ heap' = [cp.heap EXCEPT ![cp.ref] = MapSet(@, "name", c.Name)]
           /\ acc' = Append(acc, Observation("Counter", "bind_counter",
                                             "value" :> c.Value, heap', cp.ref))
    /\ i' = i + 1
    /\ UNCHANGED <<b, addr, daemon, pc, resp, stats, tags, vtags, frame, g, v, ret>>

\* the range loop is over: back to the caller
AddXMLv2CounterReturn ==
    /\ pc = "add"
    /\ i > Len(frame.stats)
    /\ pc' = frame.ret
    /\ UNCHANGED <<b, addr, daemon, resp, stats, heap, tags, vtags, frame, i, g, v, acc, ret>>

----------------------------------------------------------------------------
(* readStatsXMLv2, the memory and view sections.                           *)

\* the summary handed over with the map of the server counters
summaryTagsShared(h, t, host) == h[t]

\* map[string]string{"url": addr.Host}
summaryTags(h, t, host) == "url" :> host

\* fields := {...}; acc.AddGauge("bind_memory", fields, map[string]string{"url": addr.Host})
MemorySummary ==
    /\ pc = "memory"
    /\ heap' = Append(heap, summaryTags(heap, tags, addr.Host))
    /\ acc' = Append(acc, Observation("Gauge", "bind_memory", SummaryFields(stats),
                                      heap', Len(heap')))
    /\ pc' = "ifcontexts"
    /\ UNCHANGED <<b, addr, daemon, resp, stats, tags, vtags, frame, i, g, v, ret>>

\* if b.GatherMemoryContexts {
IfContexts ==
    /\ pc = "ifcontexts"
    /\ IF b.GatherMemoryContexts
       THEN pc' = "contexts" /\ i' = 1
       ELSE pc' = "ifviews" /\ UNCHANGED i
    /\ UNCHANGED <<b, addr, daemon, resp, stats, heap, tags, vtags, frame, g, v, acc, ret>>

\* for _, c := range stats.Statistics.Memory.Contexts { ...; acc.AddGauge(...) }
MemoryContext ==
    /\ pc = "contexts"
    /\ i <= Len(stats.Statistics.Memory.Contexts)
    /\ LET c == stats.Statistics.Memory.Contexts[i]
       IN  /\ heap' = Append(heap, [url |-> addr.Host, id |-> c.Id, name |-> c.Name])
           /\ acc' = Append(acc, Observation("Gauge", "bind_memory_context",
                                             [Total |-> c.Total, InUse |-> c.InUse],
                                             heap', Len(heap')))
    /\ i' = i + 1
    /\ UNCHANGED <<b, addr, daemon, pc, resp, stats, tags, vtags, frame, g, v, ret>>

MemoryContextsDone ==
    /\ pc = "contexts"
    /\ i > Len(stats.Statistics.Memory.Contexts)
    /\ pc' = "ifviews"
    /\ UNCHANGED <<b, addr, daemon, resp, stats, heap, tags, vtags, frame, i, g, v, acc, ret>>

\* the view section gated by the flag of the memory contexts
viewsWantedByMemoryFlag(cfg) == cfg.GatherMemoryContexts

\* b.GatherViews
viewsWanted(cfg) == cfg.GatherViews

\* if b.GatherViews {
IfViews ==
    /\ pc = "ifviews"
    /\ IF viewsWanted(b)
       THEN pc' = "views" /\ v' = 1
       ELSE pc' = "return" /\ UNCHANGED v
    /\ UNCHANGED <<b, addr, daemon, resp, stats, heap, tags, vtags, frame, i, g, acc, ret>>

\* tags := {"url": addr.Host, "view": v.Name}; tags["type"] = "qtype";
\* addXMLv2Counter(acc, tags, v.RdTypes)
ViewQtype ==
    /\ pc = "views"
    /\ v <= Len(stats.Statistics.Views)
    /\ heap' = Append(heap, MapSet([url |-> addr.Host,
                                    view |-> stats.Statistics.Views[v].Name],
                                   "type", "qtype"))
    /\ vtags' = Len(heap')
    /\ frame' = [commonTags |-> vtags',
                 stats |-> stats.Statistics.Views[v].RdTypes,
                 ret |-> "view_res"]
    /\ i' = 1
    /\ pc' = "add"
    /\ UNCHANGED <<b, addr, daemon, resp, stats, tags, g, v, acc, ret>>

\* tags["type"] = "resstats"; addXMLv2Counter(acc, tags, v.ResStats); next view
ViewResStats ==
    /\ pc = "view_res"
    /\ heap' = [heap EXCEPT ![vtags] = MapSet(@, "type", "resstats")]
    /\ frame' = [commonTags |-> vtags,
                 stats |-> stats.Statistics.Views[v].ResStats,
                 ret |-> "views"]
    /\ i' = 1
    /\ v' = v + 1
    /\ pc' = "add"
    /\ UNCHANGED <<b, addr, daemon, resp, stats, tags, vtags, g, acc, ret>>

ViewsDone ==
    /\ pc = "views"
    /\ v > Len(stats.Statistics.Views)
    /\ pc' = "return"
    /\ UNCHANGED <<b, addr, daemon, resp, stats, heap, tags, vtags, frame, i, g, v, acc, ret>>

\* return nil
Return ==
    /\ pc = "return"
    /\ ret' = Nil
    /\ pc' = "done"
    /\ UNCHANGED <<b, addr, daemon, resp, stats, heap, tags, vtags, frame, i, g, v, acc>>

----------------------------------------------------------------------------
(* The accumulator's side: once the cycle is over, the consumer rewrites   *)
(* one tag of one observation it was handed, through the map it was given. *)

TouchedKeys == {"type", "name"}

AccRewriteTag ==
    /\ pc = "done"
    /\ \E n \in DOMAIN acc, k \in TouchedKeys :
          heap' = [heap EXCEPT ![acc[n].ref] = MapSet(@, k, "rewritten")]
    /\ pc' = "consumed"
    /\ UNCHANGED <<b, addr, daemon, resp, stats, tags, vtags, frame, i, g, v, acc, ret>>

Next ==
    \/ Get
    \/ CheckStatus
    \/ Decode
    \/ MakeTags
    \/ ServerGroup
    \/ AddXMLv2Counter
    \/ AddXMLv2CounterReturn
    \/ MemorySummary
    \/ IfContexts
    \/ MemoryContext
    \/ MemoryContextsDone
    \/ IfViews
    \/ ViewQtype
    \/ ViewResStats
    \/ ViewsDone
    \/ Return
    \/ AccRewriteTag

Spec == Init /\ [][Next]_vars

TypeOK ==
    /\ pc \in {"get", "status", "decode", "tags", "server", "add", "memory",
               "ifcontexts", "contexts", "ifviews", "views", "view_res",
               "return", "done", "consumed"}
    /\ tags \in 0..Len(heap)
    /\ vtags \in 0..Len(heap)
    /\ \A n \in DOMAIN acc : acc[n].ref \in 1..Len(heap)

----------------------------------------------------------------------------
(* What the properties are stated over.                                    *)

Terminated == pc \in {"done", "consumed"}

Succeeded == Terminated /\ ret = Nil

ErrorKinds == {"Transport", "BadStatus", "Decode"}

\* the sections of the document the daemon serves, as the decode reads them
ServedServer(f) == DecodeCounters(daemon.body.server[f])

ServedViews == [k \in DOMAIN daemon.body.views |-> DecodeView(daemon.body.views[k])]

ServedContexts ==
    [k \in DOMAIN daemon.body.memory.contexts |->
        DecodeContext(daemon.body.memory.contexts[k])]

ServedSummary ==
    [f \in DOMAIN daemon.body.memory.summary |->
        copyValueInt(daemon.body.memory.summary[f]).val]

Is2xx(code) == code \in 200..299

\* character data of an int field that is there and is no integer
MalformedInt(t) == t # <<>> /\ ~ParseInt(TrimSpace(t)).ok

\* the GET is answered with 200 and a well-formed document
Fetched == ~daemon.transport /\ daemon.status = StatusOK /\ daemon.body.wellFormed

\* a document every int field of which is an integer, with the v2 marker
ValidDocument ==
    /\ Fetched
    /\ daemon.body.version = "2.2"
    /\ \A t \in IntTexts(daemon.body) : ~MalformedInt(t)

Proj(o) == [kind |-> o.kind, fields |-> o.fields, tags |-> o.tags]

HasView(o) == "view" \in DOMAIN o.tags

SummaryKeys == {"TotalUse", "InUse", "BlockSize", "ContextSize", "Lost"}

IsSummary(o) == o.kind = "Gauge" /\ DOMAIN o.fields = SummaryKeys

IsContext(o) == o.kind = "Gauge" /\ ~IsSummary(o)

IsServerCounter(o) == o.kind = "Counter" /\ ~HasView(o)

IsViewCounter(o) == o.kind = "Counter" /\ HasView(o)

ExpCounter(c, tg) ==
    [kind |-> "Counter", fields |-> ("value" :> c.Value), tags |-> MapSet(tg, "name", c.Name)]

ExpGroup(cs, tg) == [k \in DOMAIN cs |-> ExpCounter(cs[k], tg)]

\* the six server counter groups of the specification, in its order
SixGroups ==
    << [type |-> "opcode",   field |-> "OpCodes"],
       [type |-> "qtype",    field |-> "RdTypes"],
       [type |-> "nsstat",   field |-> "NSStats"],
       [type |-> "zonestat", field |-> "ZoneStats"],
       [type |-> "resstat",  field |-> "ResStats"],
       [type |-> "sockstat", field |-> "SockStats"] >>

ExpServerGroup(k) ==
    ExpGroup(ServedServer(SixGroups[k].field),
             [url |-> addr.Host, type |-> SixGroups[k].type])

ExpServer == Flatten([k \in DOMAIN SixGroups |-> ExpServerGroup(k)])

ExpView(w) ==
    ExpGroup(w.RdTypes, [url |-> addr.Host, view |-> w.Name, type |-> "qtype"])
    \o ExpGroup(w.ResStats, [url |-> addr.Host, view |-> w.Name, type |-> "resstats"])

ExpViews == Flatten([k \in DOMAIN ServedViews |-> ExpView(ServedViews[k])])

ExpContext(c) ==
    [kind   |-> "Gauge",
     fields |-> [Total |-> c.Total, InUse |-> c.InUse],
     tags   |-> [url |-> addr.Host, id |-> c.Id, name |-> c.Name]]

ExpContexts == [k \in DOMAIN ServedContexts |-> ExpContext(ServedContexts[k])]

Select(P(_)) == Map(SelectSeq(acc, P), Proj)

----------------------------------------------------------------------------
(* C1.  Emission is all-or-nothing per cycle: a cycle that returns an      *)
(* error - transport failure of the GET, bad HTTP status, XML decode       *)
(* failure - has made no accumulator call, and an accumulator call is made *)
(* only once the whole served document has been decoded successfully.      *)
C1_AllOrNothing ==
    /\ ret.kind \in ErrorKinds => acc = <<>>
    /\ acc # <<>> => /\ ~daemon.transport
                     /\ Is2xx(daemon.status)
                     /\ daemon.body.wellFormed
                     /\ \A t \in IntTexts(daemon.body) : ~MalformedInt(t)
                     /\ stats = DecodeRoot(daemon.body)

\* a cycle over a document with counters has ended in a decode error
C1_Witness ==
    /\ pc = "done"
    /\ ret.kind = "Decode"
    /\ \E f \in Range(ServerFields) : daemon.body.server[f] # <<>>
    /\ daemon.body.memory.contexts # <<>>
    /\ acc = <<>>

(* C2.  A response with a non-2xx status makes the cycle fail with a       *)
(* BadStatus error carrying the observed status code and the target; the   *)
(* body is not decoded and nothing reaches the accumulator.                *)
C2_BadStatus ==
    (~daemon.transport /\ ~Is2xx(daemon.status)) =>
        /\ acc = <<>>
        /\ stats = ZeroRoot
        /\ pc \notin {"decode", "tags"}
        /\ Terminated => ret = Result("BadStatus", addr.Host, daemon.status, "")

\* a 404 answer with a document worth decoding has been turned down
C2_Witness ==
    /\ pc = "done"
    /\ daemon.status = 404
    /\ DecodeError(daemon.body) = ""
    /\ \E f \in Range(ServerFields) : daemon.body.server[f] # <<>>
    /\ ret.kind = "BadStatus"
    /\ ret.status = 404

(* C3.  A fetched document with an unknown version marker ("v9") makes the *)
(* cycle fail with an UnsupportedVersion error, and nothing is emitted.    *)
C3_UnsupportedVersion ==
    (Fetched /\ daemon.body.version = "v9" /\ DecodeError(daemon.body) = "") =>
        /\ acc = <<>>
        /\ Terminated => ret.kind = "UnsupportedVersion"

C5_ObservationCount ==
    (Terminated /\ ValidDocument) =>
        /\ ret = Nil
        /\ Len(acc) = Len(ExpServer) + 1
                      + (IF b.GatherMemoryContexts THEN Len(ExpContexts) ELSE 0)
                      + (IF b.GatherViews THEN Len(ExpViews) ELSE 0)

(* C6.  A successful cycle yields exactly one Counter observation per      *)
(* counter of each of the six server groups (opcodes, query types,         *)
(* ns-stats, zone-stats, resolver-stats, socket-stats), duplicates         *)
(* included, with field value = the counter's value and tags url, name and *)
(* the group's type label.  (The measurement is left out of the            *)
(* comparison: the code names it "bind_counter".)                          *)
C6_ServerCounters ==
    Succeeded => Select(IsServerCounter) = ExpServer

(* C7.  With gatherViews off no observation carries a view tag, whatever   *)
(* views the document has; with gatherViews on a successful cycle has, for *)
(* each view, one Counter observation per counter of its query-type group  *)
(* (type qtype) and of its resolver group (type resstats), tagged url,     *)
(* view, type and name.                                                    *)
C7_Views ==
    /\ ~b.GatherViews => \A n \in DOMAIN acc : ~HasView(acc[n])
    /\ (Succeeded /\ b.GatherViews) => Select(HasView) = ExpViews

\* views with counters were served, gatherViews is off, the cycle succeeded
C7_Witness ==
    /\ Succeeded
    /\ ~b.GatherViews
    /\ ExpViews # <<>>
    /\ Len(acc) > 1


(* C8.  Every observation handed to the accumulator owns its tag map: the  *)
(* maps handed over are pairwise distinct and none is a base map of the    *)
(* caller; rewriting a tag of one observation after the cycle changes the  *)
(* tags of no other observation and of no base map; no later step of the   *)
(* caller (its rewriting of `type` between groups included) changes the    *)
(* tags of an observation already handed over; and addXMLv2Counter never   *)
(* writes to the commonTags map it is given.                               *)
OwnTagMaps ==
    /\ \A n, m \in DOMAIN acc : n # m => acc[n].ref # acc[m].ref
    /\ \A n \in DOMAIN acc : acc[n].ref \notin {tags, vtags}

BaseMapsKept ==
    /\ tags # 0 => heap'[tags] = heap[tags]
    /\ vtags # 0 => heap'[vtags] = heap[vtags]

C8_IndependentTags ==
    [][ /\ OwnTagMaps'
        /\ IF pc = "done"
           THEN \E n \in DOMAIN acc :
                   /\ heap'[acc[n].ref] # heap[acc[n].ref]
                   /\ \A m \in DOMAIN acc \ {n} : heap'[acc[m].ref] = heap[acc[m].ref]
                   /\ BaseMapsKept
           ELSE \A n \in DOMAIN acc :
                   /\ heap'[acc[n].ref] = heap[acc[n].ref]
                   /\ heap[acc[n].ref] = acc[n].tags
        /\ (pc = "add" /\ pc' = "add") =>
              heap'[frame.commonTags] = heap[frame.commonTags]
      ]_vars

\* of two counters of one group, the consumer has rewritten the first one's
\* type and the second one still has its own
C8_Witness ==
    /\ pc = "consumed"
    /\ \E n, m \in DOMAIN acc :
          /\ n < m
          /\ acc[n].kind = "Counter"
          /\ acc[m].kind = "Counter"
          /\ acc[n].tags.type = acc[m].tags.type
          /\ heap[acc[n].ref].type = "rewritten"
          /\ heap[acc[m].ref] = acc[m].tags

(* C9.  Every successful cycle emits exactly one memory-summary Gauge,     *)
(* whatever the flags, with the tag set {url} alone - no type, name or     *)
(* view left over from the server groups - and the five summary figures as *)
(* fields; the per-context Gauges (tags url, id, name; fields Total and    *)
(* InUse) are emitted one per context if gatherMemoryContexts and not at   *)
(* all otherwise.                                                          *)
C9_MemoryGauges ==
    Succeeded =>
        /\ Select(IsSummary) =
              << [kind   |-> "Gauge",
                  fields |-> ServedSummary,
                  tags   |-> [url |-> addr.Host]] >>
        /\ Select(IsContext) = IF b.GatherMemoryContexts THEN ExpContexts ELSE <<>>

\* the summary came after server counters, and a context gauge after it
C9_Witness ==
    /\ Succeeded
    /\ b.GatherMemoryContexts
    /\ Len(acc) >= 3
    /\ IsServerCounter(acc[1])
    /\ IsSummary(acc[2])
    /\ IsContext(acc[3])

(* C10.  The observations reach the accumulator in one fixed order: the    *)
(* server counters by group (opcode, qtype, nsstat, zonestat, resstat,     *)
(* sockstat), then the memory summary, then the memory contexts, then the  *)
(* view counters; no observation of a later rule precedes one of an        *)
(* earlier rule, and what a successful cycle emitted of a group, of the    *)
(* contexts and of the views comes in the order of the document (views in  *)
(* document order, a view's qtype counters before its resolver counters).  *)
GroupRank(type) == CHOOSE k \in DOMAIN SixGroups : SixGroups[k].type = type

Rank(o) ==
    IF IsServerCounter(o) THEN GroupRank(o.tags.type)
    ELSE IF IsSummary(o) THEN Len(SixGroups) + 1
    ELSE IF IsContext(o) THEN Len(SixGroups) + 2
    ELSE Len(SixGroups) + 3

OfRank(r) == SelectSeq(acc, LAMBDA o : Rank(o) = r)

C10_FixedOrder ==
    /\ \A n, m \in DOMAIN acc : n < m => Rank(acc[n]) <= Rank(acc[m])
    /\ Succeeded =>
          /\ \A k \in DOMAIN SixGroups :
                Map(OfRank(k), Proj) \in {<<>>, ExpServerGroup(k)}
          /\ Select(IsContext) \in {<<>>, ExpContexts}
          /\ Select(IsViewCounter) \in {<<>>, ExpViews}

\* a server counter, the summary and something of a later rule, in a row
C10_Witness ==
    /\ Succeeded
    /\ \E n \in DOMAIN acc :
          /\ n + 2 \in DOMAIN acc
          /\ Rank(acc[n]) <= Len(SixGroups)
          /\ Rank(acc[n + 1]) = Len(SixGroups) + 1
          /\ Rank(acc[n + 2]) > Len(SixGroups) + 1

====
